---- MODULE Spec2Model ----
(***************************************************************************)
(* Model of fastmcp's resource templates (resources/templates.py) and of   *)
(* the Claude desktop configuration updater (cli/claude.py).               *)
(*                                                                         *)
(* Strings that the code inspects character by character (URI templates,   *)
(* URIs, regular-expression patterns, captured values) are sequences of    *)
(* one-character strings.  Opaque strings (names, descriptions, MIME       *)
(* types, environment values) are TLA+ strings.                            *)
(***************************************************************************)
EXTENDS Integers, Sequences, FiniteSets, TLC

VARIABLES
    pc,          \* position of the single operation of SpecMatch and SpecCreate
    template,    \* matches: self.uri_template
    uri,         \* matches: the uri argument
    result,      \* matches: what the call returned or raised
    fargs,       \* from_function: its arguments
    created,     \* from_function: the template it returned or the error it raised
    registry,    \* the templates created so far, in the order of their creation
    calls,       \* the create_resource calls: each call's frame, result and ghosts
    platform,    \* update_claude_config: sys.platform
    disk,        \* update_claude_config: Claude's config directory and config file
    req,         \* update_claude_config: the arguments and result of the last call
    known        \* ghost: per server, the env variables seen so far, latest value each

matchVars == <<template, uri, result>>
createVars == <<fargs, created>>
resourceVars == <<registry, calls>>
configVars == <<platform, disk, req, known>>
vars == <<pc, template, uri, result, fargs, created, registry, calls,
          platform, disk, req, known>>

\* the value of the variables a specification does not use
Unused == <<>>
NoMatching == template = Unused /\ uri = Unused /\ result = Unused
NoCreation == fargs = Unused /\ created = Unused
NoResources == registry = Unused /\ calls = Unused
NoConfig == platform = Unused /\ disk = Unused /\ req = Unused /\ known = Unused

(***************************************************************************)
(* Bounds of the model.                                                    *)
(***************************************************************************)
MaxPieces == 3
MaxUriLen == 4

\* Python's None, and a str value (an opaque string or a sequence of characters)
None == [kind |-> "None"]
Str(v) == [kind |-> "str", val |-> v]

(***************************************************************************)
(* ResourceTemplate.matches, line 58: the template becomes a regular       *)
(* expression by two textual replacements.                                 *)
(***************************************************************************)
RECURSIVE Replace(_, _, _)
Replace(s, old, new) ==
    IF s = <<>> THEN <<>>
    ELSE (IF Head(s) = old THEN new ELSE <<Head(s)>>) \o Replace(Tail(s), old, new)

GroupOpen == <<"(", "?", "P", "<">>
GroupClose == <<">", "[", "^", "/", "]", "+", ")">>

Pattern(uri_template) == Replace(Replace(uri_template, "{", GroupOpen), "}", GroupClose)

\* line 59: f"^{pattern}$"
Anchored(uri_template) == <<"^">> \o Pattern(uri_template) \o <<"$">>

(***************************************************************************)
(* re.compile on the patterns line 59 can build.  The pattern alphabet is  *)
(* the template alphabet plus the characters of GroupOpen and GroupClose,  *)
(* so "(" only ever starts "(?P<" and "[" only ever starts "[^/]".         *)
(* Parsing returns the list of items to match, or an error (re.error).     *)
(***************************************************************************)
IdStart == {"a", "b", "x", "y", "P", "_"}
IdChars == IdStart \cup {"0", "1"}

\* str.isidentifier() on the group name
IsIdentifier(name) ==
    /\ name # <<>>
    /\ name[1] \in IdStart
    /\ \A k \in 2..Len(name) : name[k] \in IdChars

SubSeqFrom(s, i) == IF i > Len(s) THEN <<>> ELSE SubSeq(s, i, Len(s))

StartsWith(s, i, prefix) ==
    /\ i + Len(prefix) - 1 <= Len(s)
    /\ SubSeq(s, i, i + Len(prefix) - 1) = prefix

\* index of the first ch at or after i, 0 when there is none
RECURSIVE Find(_, _, _)
Find(s, i, ch) ==
    IF i > Len(s) THEN 0
    ELSE IF s[i] = ch THEN i
    ELSE Find(s, i + 1, ch)

ParseError == [ok |-> FALSE]

Item(kind, ch, name) == [kind |-> kind, ch |-> ch, name |-> name, q |-> "one"]

RECURSIVE Parse(_, _, _, _)
Parse(p, i, items, names) ==
    IF i > Len(p) THEN [ok |-> TRUE, items |-> items, names |-> names]
    ELSE LET c == p[i] IN
    CASE c = "(" ->
            \* "(?P<name>": a named group; its body is parsed up to ")"
            LET j == Find(p, i + 4, ">")
                name == IF j = 0 THEN <<>> ELSE SubSeq(p, i + 4, j - 1)
            IN  IF ~StartsWith(p, i, GroupOpen) THEN ParseError
                ELSE IF j = 0 THEN ParseError               \* missing >, unterminated name
                ELSE IF name = <<>> THEN ParseError         \* missing group name
                ELSE IF ~IsIdentifier(name) THEN ParseError \* bad character in group name
                ELSE IF name \in names THEN ParseError      \* redefinition of group name
                ELSE IF ~StartsWith(p, j, GroupClose) THEN ParseError
                ELSE Parse(p, j + Len(GroupClose),
                           Append(items, Item("group", "", name)),
                           names \cup {name})
      [] c = ")" -> ParseError                              \* unbalanced parenthesis
      [] c = "[" ->
            IF StartsWith(p, i, <<"[", "^", "/", "]">>)
            THEN Parse(p, i + 4, Append(items, Item("notslash", "", <<>>)), names)
            ELSE ParseError
      [] c \in {"?", "+"} ->
            \* a repeat of the previous item; a following "?" makes it lazy
            IF items = <<>> THEN ParseError                 \* nothing to repeat
            ELSE LET n == Len(items)
                     prev == items[n]
                     lazy == i < Len(p) /\ p[i + 1] = "?"
                     q == IF c = "+" THEN (IF lazy THEN "lazyplus" ELSE "plus")
                          ELSE (IF lazy THEN "lazy" ELSE "opt")
                 IN  IF prev.kind \in {"bol", "eol"} THEN ParseError  \* nothing to repeat
                     ELSE IF prev.q # "one" THEN ParseError           \* multiple repeat
                     ELSE Parse(p, IF lazy THEN i + 2 ELSE i + 1,
                                [items EXCEPT ![n].q = q], names)
      [] c = "^" -> Parse(p, i + 1, Append(items, Item("bol", "", <<>>)), names)
      [] c = "$" -> Parse(p, i + 1, Append(items, Item("eol", "", <<>>)), names)
      [] c = "." -> Parse(p, i + 1, Append(items, Item("any", "", <<>>)), names)
      [] OTHER   -> Parse(p, i + 1, Append(items, Item("lit", c, <<>>)), names)

Compile(p) == Parse(p, 1, <<>>, {})

(***************************************************************************)
(* re.match: a backtracking match from position 1 that returns the first   *)
(* match in the engine's order of preference (greedy repeats try the       *)
(* longest first, lazy ones the shortest first).                           *)
(***************************************************************************)
NoMatch == [ok |-> FALSE]

CharOk(it, ch) ==
    \/ it.kind = "lit" /\ ch = it.ch
    \/ it.kind = "any" /\ ch # "\n"
    \/ it.kind = "notslash" /\ ch # "/"

\* how many characters other than "/" follow from pos
RECURSIVE Run(_, _)
Run(s, pos) ==
    IF pos > Len(s) \/ s[pos] = "/" THEN 0 ELSE 1 + Run(s, pos + 1)

RECURSIVE MatchAt(_, _, _, _, _)
RECURSIVE TryGroup(_, _, _, _, _, _)

\* the group (?P<name>[^/]+) taking k characters, then k-1, ... down to 1
TryGroup(items, i, s, pos, env, k) ==
    IF k < 1 THEN NoMatch
    ELSE LET r == MatchAt(items, i + 1, s, pos + k,
                          [env EXCEPT ![items[i].name] = Str(SubSeq(s, pos, pos + k - 1))])
         IN  IF r.ok THEN r ELSE TryGroup(items, i, s, pos, env, k - 1)

MatchAt(items, i, s, pos, env) ==
    IF i > Len(items) THEN [ok |-> TRUE, env |-> env]
    ELSE LET it == items[i]
             skip == MatchAt(items, i + 1, s, pos, env)
             take == IF it.kind = "group"
                     THEN TryGroup(items, i, s, pos, env, Run(s, pos))
                     ELSE IF pos <= Len(s) /\ CharOk(it, s[pos])
                          THEN MatchAt(items, i + 1, s, pos + 1, env)
                          ELSE NoMatch
         IN
    CASE it.kind = "bol" -> IF pos = 1 THEN skip ELSE NoMatch
      [] it.kind = "eol" ->
            \* "$" matches at the end and just before a final newline
            IF pos = Len(s) + 1 \/ (pos = Len(s) /\ s[pos] = "\n")
            THEN skip ELSE NoMatch
      [] it.q = "one"  -> take
      [] it.q = "opt"  -> IF take.ok THEN take ELSE skip
      [] it.q = "lazy" -> IF skip.ok THEN skip ELSE take
      [] OTHER -> NoMatch

(***************************************************************************)
(* ResourceTemplate.matches (lines 55-62).  match.groupdict() maps every   *)
(* group name to what it captured, None for a group that took no part.     *)
(***************************************************************************)
matches(uri_template, u) ==
    LET prog == Compile(Anchored(uri_template)) IN
    IF ~prog.ok THEN [kind |-> "raise", exc |-> "re.error"]
    ELSE LET m == MatchAt(prog.items, 1, u, 1, [n \in prog.names |-> None]) IN
         IF m.ok THEN [kind |-> "dict", dict |-> m.env] ELSE None

(***************************************************************************)
(* Inputs: templates are built from pieces, URIs from characters.          *)
(***************************************************************************)
TemplatePieces ==
    { <<"a">>, <<"/">>, <<".">>, <<"?">>,
      <<"{", "x", "}">>, <<"{", "y", "}">>, <<"{">>, <<"}">> }

UriChars == {"a", "b", "/", ".", "?", "\n"}

RECURSIVE Concats(_, _)
Concats(pieces, n) ==
    IF n = 0 THEN {<<>>}
    ELSE LET shorter == Concats(pieces, n - 1)
         IN  shorter \cup {t \o p : t \in shorter, p \in pieces}

Templates == Concats(TemplatePieces, MaxPieces)
Uris == Concats({<<c>> : c \in UriChars}, MaxUriLen)

(***************************************************************************)
(* Specification of matches as a function of its two inputs.               *)
(***************************************************************************)
InitMatch ==
    /\ pc = "call"
    /\ template \in Templates
    /\ uri \in Uris
    /\ result = None
    /\ NoCreation /\ NoResources /\ NoConfig

Matches ==
    /\ pc = "call"
    /\ result' = matches(template, uri)
    /\ pc' = "returned"
    /\ UNCHANGED <<template, uri, createVars, resourceVars, configVars>>

NextMatch == Matches

SpecMatch == InitMatch /\ [][NextMatch]_vars

(***************************************************************************)
(* What the claims about matching are stated against: a template read as   *)
(* literal characters and {identifier} placeholders, and the ways a string *)
(* can be obtained from it by substituting a non-empty string without "/"  *)
(* for each placeholder.                                                   *)
(***************************************************************************)
Malformed == [ok |-> FALSE]

RECURSIVE Tokenize(_, _, _, _)
Tokenize(t, i, toks, names) ==
    IF i > Len(t) THEN [ok |-> TRUE, toks |-> toks, names |-> names]
    ELSE IF t[i] = "{" THEN
        LET j == Find(t, i + 1, "}")
            name == IF j = 0 THEN <<>> ELSE SubSeq(t, i + 1, j - 1)
        IN  IF j = 0 \/ ~IsIdentifier(name) \/ name \in names THEN Malformed
            ELSE Tokenize(t, j + 1, Append(toks, [ph |-> TRUE, ch |-> "", name |-> name]),
                          names \cup {name})
    ELSE IF t[i] = "}" THEN Malformed
    ELSE Tokenize(t, i + 1, Append(toks, [ph |-> FALSE, ch |-> t[i], name |-> <<>>]), names)

Tokens(t) == Tokenize(t, 1, <<>>, {})
WellFormed(t) == t # <<>> /\ Tokens(t).ok

\* every assignment of values to the placeholders of toks[i..] that makes them spell s[pos..]
RECURSIVE Align(_, _, _, _, _)
Align(toks, i, s, pos, env) ==
    IF i > Len(toks) THEN (IF pos = Len(s) + 1 THEN {env} ELSE {})
    ELSE IF toks[i].ph THEN
        UNION { Align(toks, i + 1, s, pos + k,
                      [env EXCEPT ![toks[i].name] = Str(SubSeq(s, pos, pos + k - 1))])
                : k \in 1..Run(s, pos) }
    ELSE IF pos <= Len(s) /\ s[pos] = toks[i].ch
         THEN Align(toks, i + 1, s, pos + 1, env)
         ELSE {}

\* the assignments whose substitution into the well-formed template t gives s
Substitutions(t, s) ==
    LET tk == Tokens(t) IN Align(tk.toks, 1, s, 1, [n \in tk.names |-> None])

\* C1 (as claimed): matching the URI obtained by substituting non-empty, slash-free
\* values into a well-formed template returns a mapping, and the mapping binds
\* every placeholder to exactly the value substituted for it.
C1_RoundTripClaimed ==
    (pc = "returned" /\ WellFormed(template)) =>
        \A sigma \in Substitutions(template, uri) :
            result = [kind |-> "dict", dict |-> sigma]

\* C2 (as claimed): for a well-formed template, matches returns a mapping exactly
\* for the strings obtained from it by substituting non-empty, slash-free values
\* (literals matched exactly, the whole string consumed), and null for every other.
C2_AcceptanceSetClaimed ==
    (pc = "returned" /\ WellFormed(template)) =>
        IF Substitutions(template, uri) # {}
        THEN result.kind = "dict"
        ELSE result = None

(***************************************************************************)
(* Python values used below.  A function object carries what the code      *)
(* reads of it: __name__, __doc__, whether pydantic can derive a schema    *)
(* from its signature, whether it is "async def", its parameters with      *)
(* their declared types, and whether validate_call wraps it.               *)
(***************************************************************************)
Truthy(v) == v.kind = "str" /\ v.val # ""

\* Python's "a or b"
Or(a, b) == IF Truthy(a) THEN a ELSE b

Exception(type, text) == [kind |-> "raise", type |-> type, text |-> text, context |-> "None"]

\* line 36; the mutant never looks at the name argument
func_name_ignoring_name(name, func) == Str(func.__name__)
func_name(name, func) == Or(name, Str(func.__name__))

\* line 41: TypeAdapter(func).json_schema()
json_schema(func) == [properties |-> func.sig]

\* line 44: validate_call(func); the mutant leaves the function unwrapped
no_validate_call(func) == func
validate_call(func) == [func EXCEPT !.validated = TRUE]

(***************************************************************************)
(* ResourceTemplate.from_function (lines 26-53).                           *)
(***************************************************************************)
from_function(func, uri_template, name, description, mime_type) ==
    LET fname == func_name(name, func) IN
    IF fname = Str("<lambda>")
    THEN Exception("ValueError", "You must provide a name for lambda functions")
    ELSE IF ~func.schema_ok
    THEN Exception("PydanticSchemaGenerationError", "schema")
    ELSE [kind |-> "template",
          template |-> [uri_template |-> uri_template,
                        name |-> fname,
                        description |-> Or(Or(description, func.__doc__), Str("")),
                        mime_type |-> Or(mime_type, Str("text/plain")),
                        func |-> validate_call(func),
                        parameters |-> json_schema(func)]]

(***************************************************************************)
(* Specification of from_function as a function of its arguments.          *)
(***************************************************************************)
ParamX == <<"x">>
Signatures == { (ParamX :> "str"), (ParamX :> "int") }

Functions ==
    [__name__ : {"<lambda>", "get_weather"},
     __doc__ : {None, Str("Weather for a city.")},
     schema_ok : BOOLEAN,
     is_async : BOOLEAN,
     sig : Signatures,
     validated : {FALSE}]

Names == {None, Str(""), Str("<lambda>"), Str("weather")}
Descriptions == {None, Str(""), Str("Current weather")}
MimeTypes == {None, Str(""), Str("application/json")}
CreateTemplates ==
    { <<"a", "/", "{", "x", "}">>, <<"a", "/", "{", "x">>,
      <<"{", "x", "}", "/", "{", "x", "}">> }
ProbeUris == { <<"a", "/", "a">>, <<"a">> }

InitCreate ==
    /\ pc = "call"
    /\ fargs \in [func : Functions, uri_template : CreateTemplates, name : Names,
                  description : Descriptions, mime_type : MimeTypes]
    /\ created = None
    /\ NoMatching /\ NoResources /\ NoConfig

FromFunction ==
    /\ pc = "call"
    /\ created' = from_function(fargs.func, fargs.uri_template, fargs.name,
                                fargs.description, fargs.mime_type)
    /\ pc' = "returned"
    /\ UNCHANGED <<fargs, matchVars, resourceVars, configVars>>

NextCreate == FromFunction

SpecCreate == InitCreate /\ [][NextCreate]_vars

\* C3 (as claimed): from_function refuses a uri_template that repeats a
\* placeholder name or has unbalanced braces, so matches on a template it
\* returned gives a mapping or None and never raises.
C3_MalformedRejectedClaimed ==
    (pc = "returned") =>
        /\ ~WellFormed(fargs.uri_template) => created.kind = "raise"
        /\ created.kind = "template" =>
                \A u \in ProbeUris : matches(created.template.uri_template, u).kind # "raise"

\* an explicit, non-empty name was passed
Supplied(name) == name # None /\ name.val # ""
IsLambda(func) == func.__name__ = "<lambda>"

\* C9 (as claimed): creation fails for a lambda without an explicit name; an
\* explicit non-empty name becomes the template's name, for a lambda as for a
\* named function; otherwise the name is the function's own identifier.
C9_NamingClaimed ==
    (pc = "returned") =>
        /\ (IsLambda(fargs.func) /\ ~Supplied(fargs.name)) => created.kind = "raise"
        /\ (Supplied(fargs.name) /\ fargs.func.schema_ok) =>
                (created.kind = "template" /\ created.template.name = fargs.name)
        /\ (~Supplied(fargs.name) /\ ~IsLambda(fargs.func) /\ fargs.func.schema_ok) =>
                (created.kind = "template"
                 /\ created.template.name = Str(fargs.func.__name__))

\* C9 (amended): as claimed, except that the explicit name "<lambda>" is refused
\* like a missing one: from_function raises ValueError and creates no template.
C9_Naming ==
    (pc = "returned") =>
        /\ (IsLambda(fargs.func) /\ ~Supplied(fargs.name)) =>
                (created.kind = "raise" /\ created.type = "ValueError")
        /\ (fargs.name = Str("<lambda>")) =>
                (created.kind = "raise" /\ created.type = "ValueError")
        /\ (Supplied(fargs.name) /\ fargs.name # Str("<lambda>") /\ fargs.func.schema_ok) =>
                (created.kind = "template" /\ created.template.name = fargs.name)
        /\ (~Supplied(fargs.name) /\ ~IsLambda(fargs.func) /\ fargs.func.schema_ok) =>
                (created.kind = "template"
                 /\ created.template.name = Str(fargs.func.__name__))

\* a lambda given an explicit name became a template of that name
C9_Witness ==
    /\ pc = "returned"
    /\ IsLambda(fargs.func)
    /\ fargs.name = Str("weather")
    /\ created.kind = "template"
    /\ created.template.name = Str("weather")

(***************************************************************************)
(* Calling the template's function (line 68).  A function wrapped by       *)
(* validate_call checks the keyword arguments against the declared         *)
(* parameters and converts them before its body runs; an unwrapped one     *)
(* only binds them by name.                                                *)
(***************************************************************************)
MaxCalls == 2

DigitValue == ("0" :> 0) @@ ("1" :> 1)

IsIntText(s) == s # <<>> /\ \A k \in 1..Len(s) : s[k] \in DOMAIN DigitValue

RECURSIVE ParseInt(_)
ParseInt(s) ==
    IF s = <<>> THEN 0
    ELSE 10 * ParseInt(SubSeq(s, 1, Len(s) - 1)) + DigitValue[s[Len(s)]]

\* pydantic's conversion of a str argument to the declared type
Coercible(type, v) == v.kind = "str" /\ (type = "str" \/ IsIntText(v.val))
Coerce(type, v) == IF type = "int" THEN [kind |-> "int", val |-> ParseInt(v.val)] ELSE v

\* the exception raised by the call itself, before the body: None when there is none
BindError(f, params) ==
    IF f.validated
    THEN IF /\ DOMAIN params = DOMAIN f.sig
            /\ \A n \in DOMAIN f.sig : Coercible(f.sig[n], params[n])
         THEN None
         ELSE Exception("ValidationError", "1 validation error")
    ELSE IF DOMAIN params = DOMAIN f.sig
         THEN None
         ELSE Exception("TypeError", "unexpected keyword argument")

\* the arguments the body receives
BoundArgs(f, params) ==
    IF f.validated
    THEN [n \in DOMAIN f.sig |-> Coerce(f.sig[n], params[n])]
    ELSE params

(***************************************************************************)
(* What a producer can do when its body runs: return an object or raise.   *)
(* An object is plain content, a coroutine object, or another awaitable    *)
(* (an asyncio Future).  Calling an "async def" producer runs nothing and  *)
(* returns a coroutine object; its body runs when that is awaited.         *)
(***************************************************************************)
Contents == {"sunny", "rainy"}
Plain(v) == [kind |-> "plain", val |-> v]
Future == [kind |-> "future", val |-> "pending"]
Coroutine == [kind |-> "coroutine", val |-> "pending"]
Objects == {Plain(v) : v \in Contents} \cup {Future, Coroutine}

Outcomes ==
    {[kind |-> "return", obj |-> o] : o \in Objects}
    \cup {[kind |-> "raise", exc |-> Exception("RuntimeError", "boom")]}

\* line 69: inspect.iscoroutine(result); the mutant never awaits
never_coroutine(obj) == FALSE
iscoroutine(obj) == obj.kind = "coroutine"

\* line 77: "lambda: result" closes over the local variable of call c; the
\* mutant closes over a variable shared by all calls
shared_closure(c) == [cell |-> 1]
closure(c) == [cell |-> c]

\* lines 72-78
FunctionResource(u, name, description, mime_type, func) ==
    [uri |-> u, name |-> name, description |-> description,
     mime_type |-> mime_type, func |-> func]

\* lines 79-80: raise ValueError(f"Error creating resource from template: {e}")
ValueErrorFrom(e) ==
    [kind |-> "raise", type |-> "ValueError",
     text |-> "Error creating resource from template: " \o e.text,
     context |-> e.type]

(***************************************************************************)
(* The frame of one create_resource call.  invoked, ran, first, ret,       *)
(* awaited and stage are ghosts: how often self.func was called and the    *)
(* producer's body run, the object the call returned, the object last      *)
(* obtained from the producer, whether an await took place, and where a    *)
(* failure arose.  read is what the last use of the content accessor gave. *)
(***************************************************************************)
IdleCall ==
    [pc |-> "idle", tpl |-> 0, seen |-> 0, uri |-> <<>>, params |-> <<>>,
     result |-> None, resource |-> None, error |-> None,
     invoked |-> 0, ran |-> 0, first |-> None, ret |-> None, awaited |-> FALSE,
     stage |-> "", read |-> None]

Raised(fr, e, stage) ==
    [fr EXCEPT !.pc = "raised", !.error = ValueErrorFrom(e), !.stage = stage]

\* lines 72-78: the Resource is built and returned
Returned(fr, c, self) ==
    [fr EXCEPT !.pc = "returned",
               !.resource = FunctionResource(fr.uri, self.name, self.description,
                                             self.mime_type, closure(c))]

\* create_resource (lines 64-80) up to its return, its raise or its await:
\* call c on template self with uri u and params; out is what the body does
create_resource(self, c, fr0, u, params, out) ==
    LET f == self.func
        e == BindError(f, params)
        fr == [fr0 EXCEPT !.uri = u, !.params = params, !.invoked = 1]
    IN  IF e # None THEN Raised(fr, e, "validation")
        ELSE IF f.is_async
        THEN \* the call returns the coroutine of the body
             LET got == [fr EXCEPT !.result = Coroutine, !.first = Coroutine,
                                   !.ret = Coroutine]
             IN  IF iscoroutine(Coroutine)
                 THEN [got EXCEPT !.pc = "awaiting"]
                 ELSE Returned(got, c, self)
        ELSE \* the body runs in the call
             IF out.kind = "raise"
             THEN Raised([fr EXCEPT !.ran = 1], out.exc, "producer")
             ELSE LET got == [fr EXCEPT !.ran = 1, !.result = out.obj,
                                        !.first = out.obj, !.ret = out.obj]
                  IN  IF iscoroutine(out.obj)
                      THEN [got EXCEPT !.pc = "awaiting"]
                      ELSE Returned(got, c, self)

\* create_resource from "result = await result" (line 70) to its return or raise
create_resource_resume(self, c, fr0, out) ==
    LET fr == [fr0 EXCEPT !.awaited = TRUE,
                          !.ran = IF self.func.is_async THEN @ + 1 ELSE @]
    IN  IF out.kind = "raise"
        THEN Raised(fr, out.exc, "producer")
        ELSE Returned([fr EXCEPT !.result = out.obj, !.ret = out.obj], c, self)

\* the Resource's content accessor: calling its func reads the closed-over variable
Content(resource) == calls[resource.func.cell].result

(***************************************************************************)
(* Specification of create_resource: calls on one template, which may      *)
(* overlap at their await, and reads of the Resources they returned.       *)
(***************************************************************************)
ArgValues == {Str(<<"a">>), Str(<<"1", "0">>), None}
ParamDicts == [{ParamX} -> ArgValues] \cup {<<>>}
ResourceUris == { <<"a", "/", "a">>, <<"a", "/", "1">> }

ResourceTemplates ==
    { from_function(f, <<"a", "/", "{", "x", "}">>, None, None, None).template :
        f \in {g \in Functions : g.schema_ok /\ ~IsLambda(g) /\ g.__doc__ # None} }

InitResource ==
    /\ pc = "run"
    /\ registry \in {<<t>> : t \in ResourceTemplates}
    /\ calls = [c \in 1..MaxCalls |-> IdleCall]
    /\ NoMatching /\ NoCreation /\ NoConfig

\* call numbers are handed out in order
Free(c) == calls[c].pc = "idle" /\ \A d \in 1..(c - 1) : calls[d].pc # "idle"

CreateResource(c, u, params, out) ==
    /\ Free(c)
    /\ calls' = [calls EXCEPT ![c] =
                    create_resource(registry[1], c, [IdleCall EXCEPT !.tpl = 1, !.seen = 1],
                                    u, params, out)]
    /\ UNCHANGED <<pc, registry, matchVars, createVars, configVars>>

Await(c, out) ==
    /\ calls[c].pc = "awaiting"
    /\ calls' = [calls EXCEPT ![c] =
                    create_resource_resume(registry[calls[c].tpl], c, calls[c], out)]
    /\ UNCHANGED <<pc, registry, matchVars, createVars, configVars>>

Read(c) ==
    /\ calls[c].pc = "returned"
    /\ calls' = [calls EXCEPT ![c].read = Content(calls[c].resource)]
    /\ UNCHANGED <<pc, registry, matchVars, createVars, configVars>>

NextResource ==
    \/ \E c \in 1..MaxCalls, u \in ResourceUris, params \in ParamDicts, out \in Outcomes :
            CreateResource(c, u, params, out)
    \/ \E c \in 1..MaxCalls, out \in Outcomes : Await(c, out)
    \/ \E c \in 1..MaxCalls : Read(c)

SpecResource == InitResource /\ [][NextResource]_vars

Started == {c \in 1..MaxCalls : calls[c].pc # "idle"}
Finished(state) == {c \in 1..MaxCalls : calls[c].pc = state}

\* params can be converted to what the template's parameter schema declares
ParamsValid(parameters, params) ==
    /\ DOMAIN params = DOMAIN parameters.properties
    /\ \A n \in DOMAIN params : Coercible(parameters.properties[n], params[n])

\* C5: a call whose parameters cannot be converted to the declared types ends in
\* a failure caused by the validation error; the producer's body never runs for
\* it and no Resource is returned.
C5_ValidationFirst ==
    \A c \in Started :
        ~ParamsValid(registry[calls[c].tpl].parameters, calls[c].params) =>
            /\ calls[c].pc = "raised"
            /\ calls[c].error.context = "ValidationError"
            /\ calls[c].ran = 0
            /\ calls[c].resource = None

\* an integer parameter was given "a": the call failed before the body ran
C5_Witness ==
    \E c \in Finished("raised") :
        /\ registry[calls[c].tpl].parameters.properties[ParamX] = "int"
        /\ calls[c].params = (ParamX :> Str(<<"a">>))
        /\ calls[c].stage = "validation"
        /\ calls[c].ran = 0

\* C6 (as claimed): a parameter-validation failure and a producer failure are
\* never reported as the same kind of failure.
C6_DistinctFailuresClaimed ==
    \A c, d \in Finished("raised") :
        (calls[c].stage = "validation" /\ calls[d].stage = "producer") =>
            calls[c].error.type # calls[d].error.type

\* what a returned call's Resource carries, whatever the producer returned
ResourceOf(c) ==
    LET self == registry[calls[c].tpl]
        r == calls[c].resource
    IN  /\ r.uri = calls[c].uri
        /\ r.name = self.name
        /\ r.description = self.description
        /\ r.mime_type = self.mime_type
        /\ Content(r) = calls[c].ret
        /\ calls[c].ran = 1

\* C7 (as claimed): a call returns only after the producer completed, with a
\* Resource that carries the call's uri and the template's name, description and
\* MIME type, and whose content is the producer's final value, never a
\* computation that was not awaited.
C7_ResourceClaimed ==
    \A c \in Finished("returned") :
        /\ ResourceOf(c)
        /\ Content(calls[c].resource).kind = "plain"

\* C7 (amended): as claimed, except that only a coroutine object returned by the
\* call is awaited, and once: the content is the value the call returned or, when
\* that is a coroutine object, the value obtained by awaiting it; any other
\* awaitable, and an awaitable that the awaited coroutine returns, is kept as is.
C7_Resource ==
    \A c \in Finished("returned") :
        /\ ResourceOf(c)
        /\ calls[c].awaited = (calls[c].first.kind = "coroutine")
        /\ ~calls[c].awaited => Content(calls[c].resource) = calls[c].first

\* an async producer was awaited and its value became the Resource's content
C7_Witness ==
    \E c \in Finished("returned") :
        /\ registry[calls[c].tpl].func.is_async
        /\ calls[c].awaited
        /\ calls[c].resource.uri = <<"a", "/", "a">>
        /\ Content(calls[c].resource) = Plain("sunny")

\* C8: self.func is called exactly once per call and the body runs at most once,
\* exactly once for a call that returned; every read of a Resource's content gives
\* the value obtained from the producer when the Resource was created, whatever
\* other calls on the template have returned since.
C8_Snapshot ==
    \A c \in Started :
        /\ calls[c].invoked = 1
        /\ calls[c].ran <= 1
        /\ calls[c].pc = "returned" =>
                /\ calls[c].ran = 1
                /\ Content(calls[c].resource) = calls[c].ret
                /\ calls[c].read \in {None, calls[c].ret}

\* two Resources of one template hold different contents, and both were read
C8_Witness ==
    \E c, d \in Finished("returned") :
        /\ calls[c].ret = Plain("sunny") /\ calls[c].read = Plain("sunny")
        /\ calls[d].ret = Plain("rainy") /\ calls[d].read = Plain("rainy")

(***************************************************************************)
(* The registry of templates and the lookup of a URI in it.  Registration  *)
(* creates the template with from_function and keeps it after those        *)
(* registered before; a lookup tries the templates in that order with      *)
(* matches and calls create_resource on the first that matches.  An error  *)
(* raised by matches ends the lookup.                                      *)
(***************************************************************************)
MaxTemplates == 2

RECURSIVE FirstMatch(_, _, _)
FirstMatch(reg, i, u) ==
    IF i > Len(reg) THEN [kind |-> "NoMatch"]
    ELSE LET m == matches(reg[i].uri_template, u) IN
         IF m.kind = "raise"
         THEN [kind |-> "raise", exc |-> Exception(m.exc, "invalid pattern")]
         ELSE IF m.kind = "dict"
         THEN [kind |-> "match", index |-> i, params |-> m.dict]
         ELSE FirstMatch(reg, i + 1, u)

resolve(c, u, out) ==
    LET sel == FirstMatch(registry, 1, u)
        fr == [IdleCall EXCEPT !.seen = Len(registry), !.uri = u]
    IN  CASE sel.kind = "NoMatch" ->
                [fr EXCEPT !.pc = "raised", !.stage = "nomatch",
                           !.error = Exception("NoMatch", "unknown resource")]
          [] sel.kind = "raise" ->
                [fr EXCEPT !.pc = "raised", !.stage = "matches", !.error = sel.exc]
          [] sel.kind = "match" ->
                create_resource(registry[sel.index], c, [fr EXCEPT !.tpl = sel.index],
                                u, sel.params, out)

RegistryTemplates ==
    { <<"a", "/", "{", "x", "}">>, <<"a", "/", "a">>, <<"{", "x", "}">>,
      <<"a", "/", "{", "x">>, <<"{", "x", "}", "/", "{", "x", "}">> }

RegistryFunctions ==
    { f \in Functions : f.schema_ok /\ f.__doc__ = None /\ f.sig[ParamX] = "str" }

RegistryUris == { <<"a", "/", "a">>, <<"a">>, <<"/">> }

InitResolve ==
    /\ pc = "run"
    /\ registry = <<>>
    /\ calls = [c \in 1..MaxCalls |-> IdleCall]
    /\ created = None
    /\ fargs = Unused
    /\ NoMatching /\ NoConfig

Register(func, uri_template) ==
    /\ Len(registry) < MaxTemplates
    /\ created' = from_function(func, uri_template, None, None, None)
    /\ registry' = IF created'.kind = "template"
                   THEN Append(registry, created'.template)
                   ELSE registry
    /\ UNCHANGED <<pc, fargs, calls, matchVars, configVars>>

Resolve(c, u, out) ==
    /\ Free(c)
    /\ calls' = [calls EXCEPT ![c] = resolve(c, u, out)]
    /\ UNCHANGED <<pc, registry, matchVars, createVars, configVars>>

NextResolve ==
    \/ \E f \in RegistryFunctions, t \in RegistryTemplates : Register(f, t)
    \/ \E c \in 1..MaxCalls, u \in RegistryUris, out \in Outcomes : Resolve(c, u, out)
    \/ \E c \in 1..MaxCalls, out \in Outcomes : Await(c, out)
    \/ \E c \in 1..MaxCalls : Read(c)

SpecResolve == InitResolve /\ [][NextResolve]_vars

\* the templates, among those registered when call c was made, that match its uri
Hits(c) ==
    { i \in 1..calls[c].seen :
        matches(registry[i].uri_template, calls[c].uri).kind = "dict" }

Earliest(S) == CHOOSE i \in S : \A j \in S : i <= j

\* C4 (as claimed): whatever templates are registered, a lookup uses the
\* earliest-registered template whose matches is non-null, and no other.
C4_FirstMatchWinsClaimed ==
    \A c \in Started : Hits(c) # {} => calls[c].tpl = Earliest(Hits(c))

\* first-match-wins among templates none of which makes matches raise
FirstMatchWinsWhenNoneRaises ==
    \A c \in Started :
        (\A i \in 1..calls[c].seen :
            matches(registry[i].uri_template, calls[c].uri).kind # "raise")
        => /\ Hits(c) # {} => calls[c].tpl = Earliest(Hits(c))
           /\ Hits(c) = {} => calls[c].stage = "nomatch"

(***************************************************************************)
(* cli/claude.py: update_claude_config.  A JSON object is Dict(f) with f a *)
(* function from its keys; the file holds either text that is not JSON or  *)
(* the serialisation of a value.  A file_spec is written as the sequence   *)
(* of its parts between the ":" characters.                                *)
(***************************************************************************)
Absent == [kind |-> "absent"]
Dict(f) == [kind |-> "dict", val |-> f]
List(s) == [kind |-> "list", val |-> s]
Has(d, k) == k \in DOMAIN d.val

\* truth value of an Optional[dict], Optional[list] or Optional[Path] argument
Given(v) ==
    CASE v.kind = "dict" -> DOMAIN v.val # {}
      [] v.kind = "list" -> v.val # <<>>
      [] v.kind = "str" -> TRUE
      [] OTHER -> FALSE

ConfigDir ==
    [win32 |-> "~/AppData/Roaming/Claude",
     darwin |-> "~/Library/Application Support/Claude"]

get_claude_config_path(plat, d) ==
    IF plat \in {"win32", "darwin"}
    THEN IF d.dir THEN Str(ConfigDir[plat]) ELSE None
    ELSE None

loads(file) ==
    IF file.kind = "json" THEN file.value
    ELSE [kind |-> "raise", exc |-> "JSONDecodeError"]

dumps(value) == [kind |-> "json", value |-> value]

\* line 66; the mutant lets the existing values win
merge_env_existing_first(existing_env, env_vars) == existing_env @@ env_vars
merge_env(existing_env, env_vars) == env_vars @@ existing_env

RECURSIVE Join(_)
Join(parts) ==
    IF Len(parts) = 1 THEN parts[1]
    ELSE parts[1] \o ":" \o Join(Tail(parts))

resolve_path(p) == "/cwd/" \o p

\* lines 83-87
absolute_file_spec(file_spec) ==
    IF Len(file_spec) > 1
    THEN resolve_path(Join(SubSeq(file_spec, 1, Len(file_spec) - 1)))
            \o ":" \o file_spec[Len(file_spec)]
    ELSE resolve_path(file_spec[1])

\* lines 77-79
RECURSIVE extend_packages(_, _)
extend_packages(args, pkgs) ==
    IF pkgs = <<>> THEN args
    ELSE extend_packages(IF Head(pkgs) # "" THEN args \o <<"--with", Head(pkgs)>> ELSE args,
                         Tail(pkgs))

\* lines 71-90
build_args(file_spec, with_editable, with_packages) ==
    LET base == <<"run", "--with", "fastmcp">>
        editable == IF Given(with_editable)
                    THEN base \o <<"--with-editable", with_editable.val>>
                    ELSE base
        packages == IF Given(with_packages)
                    THEN extend_packages(editable, with_packages.val)
                    ELSE editable
    IN  packages \o <<"fastmcp", "run", absolute_file_spec(file_spec)>>

Failed(d) == [ret |-> FALSE, disk |-> d]

update_claude_config(plat, d, file_spec, server_name, with_editable, with_packages, env_vars) ==
    IF get_claude_config_path(plat, d) = None THEN Failed(d)
    ELSE IF d.file = Absent THEN Failed(d)
    ELSE LET loaded == loads(d.file) IN
    IF loaded.kind # "dict" THEN Failed(d)
    ELSE LET config == IF Has(loaded, "mcpServers") THEN loaded.val
                       ELSE ("mcpServers" :> Dict(<<>>)) @@ loaded.val
             servers == config["mcpServers"]
    IN
    IF servers.kind # "dict" THEN Failed(d)
    ELSE LET present == /\ Has(servers, server_name)
                        /\ Has(servers.val[server_name], "env")
             existing_env == servers.val[server_name].val["env"]
    IN
    IF present /\ Given(env_vars) /\ existing_env.kind # "dict" THEN Failed(d)
    ELSE LET env == IF present
                    THEN IF Given(env_vars)
                         THEN Dict(merge_env(existing_env.val, env_vars.val))
                         ELSE existing_env
                    ELSE env_vars
             args == build_args(file_spec, with_editable, with_packages)
             server_config == IF Given(env)
                              THEN ("command" :> "uv") @@ ("args" :> args) @@ ("env" :> env)
                              ELSE ("command" :> "uv") @@ ("args" :> args)
             written == ("mcpServers" :> Dict((server_name :> Dict(server_config))
                                               @@ servers.val)) @@ config
    IN  [ret |-> TRUE, disk |-> [d EXCEPT !.file = dumps(Dict(written))]]

ServerNames == {"weather", "notes"}
Platforms == {"win32", "darwin", "linux"}
Launch(file_spec, with_editable, with_packages) ==
    [file_spec |-> file_spec, with_editable |-> with_editable,
     with_packages |-> with_packages]
Launches ==
    { Launch(<<"server.py">>, None, None),
      Launch(<<"server.py">>, Str("/src/fastmcp"), List(<<"pandas", "">>)),
      Launch(<<"pkg", "server.py", "app">>, None, List(<<"pandas", "">>)),
      Launch(<<"pkg", "server.py", "app">>, Str("/src/fastmcp"), None) }
EnvVars ==
    { None, Dict(<<>>), Dict("KEY" :> "2"), Dict("URL" :> "1"),
      Dict(("KEY" :> "2") @@ ("URL" :> "1")) }

OldServer(env) ==
    Dict(("command" :> "uv") @@ ("args" :> <<"run", "old.py">>) @@ ("env" :> env))

Files ==
    { Absent, [kind |-> "text"], dumps(List(<<>>)),
      dumps(Dict("theme" :> "dark")),
      dumps(Dict("mcpServers" :> None)),
      dumps(Dict(("theme" :> "dark") @@ ("mcpServers" :> Dict(<<>>)))),
      dumps(Dict("mcpServers" :> Dict("weather" :>
                    Dict(("command" :> "uv") @@ ("args" :> <<"run", "old.py">>))))),
      dumps(Dict("mcpServers" :> Dict("weather" :> OldServer(None)))),
      dumps(Dict("mcpServers" :> Dict("weather" :> OldServer(Dict(<<>>))))),
      dumps(Dict("mcpServers" :> Dict("weather" :> OldServer(Dict("KEY" :> "1"))))),
      dumps(Dict("mcpServers" :> Dict(("weather" :> OldServer(Dict("KEY" :> "1")))
                                       @@ ("notes" :> OldServer(Dict("URL" :> "1")))))) }

Disks == { [dir |-> TRUE, file |-> f] : f \in Files } \cup { [dir |-> FALSE, file |-> Absent] }

\* the entry of server s in the configuration on disk, None when there is none
StoredServer(d, s) ==
    IF d.file.kind # "json" THEN None
    ELSE IF d.file.value.kind # "dict" THEN None
    ELSE IF ~Has(d.file.value, "mcpServers") THEN None
    ELSE IF d.file.value.val["mcpServers"].kind # "dict" THEN None
    ELSE IF ~Has(d.file.value.val["mcpServers"], s) THEN None
    ELSE d.file.value.val["mcpServers"].val[s]

\* the variables stored for server s
StoredEnv(d, s) ==
    LET entry == StoredServer(d, s) IN
    IF entry = None THEN <<>>
    ELSE IF ~Has(entry, "env") THEN <<>>
    ELSE IF entry.val["env"].kind # "dict" THEN <<>>
    ELSE entry.val["env"].val

InitConfig ==
    /\ pc = "run"
    /\ platform \in Platforms
    /\ disk \in Disks
    /\ req = None
    /\ known = [s \in ServerNames |-> StoredEnv(disk, s)]
    /\ NoMatching /\ NoCreation /\ NoResources

UpdateClaudeConfig(file_spec, server_name, with_editable, with_packages, env_vars) ==
    LET r == update_claude_config(platform, disk, file_spec, server_name,
                                  with_editable, with_packages, env_vars)
    IN  /\ disk' = r.disk
        /\ req' = [file_spec |-> file_spec, server_name |-> server_name,
                   with_editable |-> with_editable, with_packages |-> with_packages,
                   env_vars |-> env_vars, before |-> StoredEnv(disk, server_name),
                   ret |-> r.ret]
        /\ known' = IF r.ret /\ env_vars # None
                    THEN [known EXCEPT ![server_name] = env_vars.val @@ @]
                    ELSE known
        /\ UNCHANGED <<pc, platform, matchVars, createVars, resourceVars>>

NextConfig ==
    \E l \in Launches, server_name \in ServerNames, env_vars \in EnvVars :
        UpdateClaudeConfig(l.file_spec, server_name, l.with_editable, l.with_packages,
                           env_vars)

SpecConfig == InitConfig /\ [][NextConfig]_vars

\* C10: the env stored for a server holds every variable that was in the
\* configuration at the start or was supplied by a successful call for that
\* server, each with the value of the latest call that supplied it; a successful
\* call without env_vars leaves the stored env as it was and stores the new
\* command and args.
C10_EnvNeverLost ==
    /\ \A s \in ServerNames : StoredEnv(disk, s) = known[s]
    /\ (req # None /\ req.ret) =>
        LET entry == StoredServer(disk, req.server_name) IN
        /\ entry # None
        /\ entry.val["command"] = "uv"
        /\ entry.val["args"] = build_args(req.file_spec, req.with_editable, req.with_packages)
        /\ ~Given(req.env_vars) => StoredEnv(disk, req.server_name) = req.before

\* a call without env_vars has replaced the args of a server whose env holds an
\* overwritten value of the initial configuration and a variable added later
C10_Witness ==
    /\ req # None /\ req.ret /\ req.env_vars = None /\ req.server_name = "weather"
    /\ req.before = ("KEY" :> "2") @@ ("URL" :> "1")
    /\ StoredEnv(disk, "weather") = ("KEY" :> "2") @@ ("URL" :> "1")
    /\ StoredEnv(disk, "notes") = ("URL" :> "1")
    /\ StoredServer(disk, "weather").val["args"] # <<"run", "old.py">>

====
